---------------------------- MODULE Spec2Model ----------------------------
(***************************************************************************)
(* Model of the Sapling transaction Builder of zcash_client_backend        *)
(* (src/zcash_client_backend/src/transaction.rs).                          *)
(*                                                                         *)
(* 64-bit integers.  TLC's integers are 32 bits wide, so a 64-bit quantity *)
(* is written hi * 2^63 + lo as the record [hi, lo], with lo of small      *)
(* magnitude (far below 2^62).  Every integer the model handles is within  *)
(* a small distance of a multiple of 2^63, so this form is exact and       *)
(* unique; additions and subtractions are exact, and the reductions to the *)
(* i64 and u64 ranges are those of two's complement.                       *)
(***************************************************************************)
EXTENDS Integers, Sequences, FiniteSets, TLC

\* ------------------------------------------------------------------------
\* Bounds of the model
\* ------------------------------------------------------------------------

\* Calls of add_sapling_spend and add_sapling_output explored, failed calls
\* included.
MaxCalls == 3

\* The largest position of a note in the commitment tree that nf is applied to.
MaxPosition == 2

\* The outputs of a compact transaction and the transactions of a compact
\* block that are scanned.
MaxOutputs == 2

MaxTxs == 2

\* ------------------------------------------------------------------------
\* Exact integers near the multiples of 2^63
\* ------------------------------------------------------------------------

N(h, l) == [hi |-> h, lo |-> l]

Zero == N(0, 0)

Add(a, b) == N(a.hi + b.hi, a.lo + b.lo)

Sub(a, b) == N(a.hi - b.hi, a.lo - b.lo)

IsNegative(a) == a.hi < 0 \/ (a.hi = 0 /\ a.lo < 0)

IsPositive(a) == a.hi > 0 \/ (a.hi = 0 /\ a.lo > 0)

\* -2^63 <= a < 2^63
InI64(a) == a.hi = 0 \/ (a.hi = -1 /\ a.lo >= 0) \/ (a.hi = 1 /\ a.lo < 0)

\* 0 <= a < 2^64
InU64(a) == (a.hi = 0 /\ a.lo >= 0) \/ a.hi = 1 \/ (a.hi = 2 /\ a.lo < 0)

\* The representative of a modulo 2^64 in the i64 range (`as i64`, and the
\* result of wrapping i64 arithmetic).
WrapI64(a) ==
    IF a.hi % 2 = 0 THEN N(0, a.lo)
    ELSE IF a.lo >= 0 THEN N(-1, a.lo) ELSE N(1, a.lo)

\* The representative of a modulo 2^64 in the u64 range (`as u64`).
WrapU64(a) ==
    IF a.hi % 2 = 0 THEN (IF a.lo >= 0 THEN N(0, a.lo) ELSE N(2, a.lo))
    ELSE N(1, a.lo)

I64_MAX == N(1, -1)

I64_MIN == N(-1, 0)

\* Option<T>: None is the empty sequence, Some(x) the one-element sequence.
None == << >>

Some(x) == << x >>

\* ------------------------------------------------------------------------
\* Program constants
\* ------------------------------------------------------------------------

DEFAULT_FEE == 10000

\* ------------------------------------------------------------------------
\* Inputs
\* ------------------------------------------------------------------------

\* 11-byte diversifiers; group_hash yields a point for the first two only.
Diversifiers == {"d1", "d2", "dBad"}

ValidDiversifiers == {"d1", "d2"}

\* Diversifier::g_d: the group hash of the diversifier, or None.
g_d(diversifier) ==
    IF diversifier \in ValidDiversifiers THEN Some(<<"g_d", diversifier>>)
    ELSE None

\* PaymentAddress::create_note, for an address whose diversifier is valid.
Note(d, pk, v, rcm) ==
    [value |-> v, g_d |-> g_d(d)[1], pk_d |-> pk, r |-> rcm]

\* An IncrementalWitness: the root of its tree, the position of its leaf,
\* and whether the tree holds the leaf a path can be built for.
Witness(rt, pos, full) == [root |-> rt, position |-> pos, filled |-> full]

\* IncrementalWitness::root
root(witness) == witness.root

\* IncrementalWitness::path: the CommitmentTreeWitness, or an error for the
\* witness of an empty tree.
path(witness) ==
    IF witness.filled
    THEN [ok |-> TRUE, val |-> [position |-> witness.position, root |-> witness.root]]
    ELSE [ok |-> FALSE, val |-> [position |-> 0, root |-> witness.root]]

\* Arguments of add_sapling_spend.
SpendArgs ==
    { [account_id |-> 0, diversifier |-> "d1",
       note |-> Note("d1", "pkA", N(0, 59999), 3), ar |-> 1,
       witness |-> Witness("R1", 0, TRUE)],
      [account_id |-> 1, diversifier |-> "d2",
       note |-> Note("d2", "pkB", N(0, 1), 4), ar |-> 2,
       witness |-> Witness("R1", 1, TRUE)],
      [account_id |-> 0, diversifier |-> "d2",
       note |-> Note("d2", "pkB", N(0, 1), 4), ar |-> 1,
       witness |-> Witness("R2", 0, TRUE)],
      [account_id |-> 1, diversifier |-> "dBad",
       note |-> Note("d1", "pkA", N(0, 59999), 3), ar |-> 2,
       witness |-> Witness("R1", 0, TRUE)],
      [account_id |-> 0, diversifier |-> "d1",
       note |-> Note("d1", "pkA", N(1, 0), 5), ar |-> 1,
       witness |-> Witness("R1", 2, TRUE)],
      [account_id |-> 0, diversifier |-> "d1",
       note |-> Note("d1", "pkA", N(0, 10000), 6), ar |-> 2,
       witness |-> Witness("R0", 0, FALSE)] }

\* ExtendedSpendingKey::master and ExtendedSpendingKey::from_path: the key
\* at a path of hardened child indices below the master key.
Master == [seed |-> "master", path |-> << >>]

from_path(master, indices) == [master EXCEPT !.path = @ \o indices]

\* ExtendedFullViewingKey::from(&xsk).fvk.ovk
ovk_of(xsk) == <<"ovk", xsk>>

\* xsk.expsk.ask
ask_of(xsk) == <<"ask", xsk>>

\* xsk.expsk.proof_generation_key
proof_generation_key(xsk) == <<"pgk", xsk>>

\* Arguments of add_sapling_output (rcm is drawn inside the call).
OutputArgs ==
    { [ovk |-> ovk_of(Master), to |-> [diversifier |-> "d1", pk_d |-> "pkA"],
       value |-> N(0, 50000), memo |-> None],
      [ovk |-> ovk_of(from_path(Master, <<32, 1, 1>>)),
       to |-> [diversifier |-> "d2", pk_d |-> "pkB"],
       value |-> N(0, -1), memo |-> Some("memo")],
      [ovk |-> ovk_of(Master), to |-> [diversifier |-> "dBad", pk_d |-> "pkA"],
       value |-> N(0, 50000), memo |-> None],
      [ovk |-> ovk_of(Master), to |-> [diversifier |-> "d1", pk_d |-> "pkA"],
       value |-> I64_MAX, memo |-> None] }

\* Arguments of set_fee.
FeeArgs == {Zero, N(0, -49999), I64_MIN}

\* Fs::rand: the note commitment randomness an output can draw.
Rcms == {7}

\* Builder::new's coin_type.
CoinTypes == {1}

\* ------------------------------------------------------------------------
\* State
\* ------------------------------------------------------------------------

VARIABLES
    builder,          \* the Builder: mtx, coin_type, fee, anchor, spends, outputs, change_address
    phase,            \* "Accumulating", "Built", "Failed" or "Panicked"
    call,             \* the last call and its arguments
    result,           \* what the last call returned
    log,              \* the calls build made to the prover, the sighash and the signers, in order
    overflow_checks,  \* whether the build panics on integer overflow (debug) or wraps (release)
    calls,            \* how many add_sapling_spend and add_sapling_output calls were made
    paid_in,          \* sum of the note values of the add_sapling_spend calls that returned Ok
    paid_out          \* sum of the values of the add_sapling_output calls that returned Ok

vars == <<builder, phase, call, result, log, overflow_checks, calls, paid_in, paid_out>>

\* A call's return: Ok (with the transaction, for build), an Err with its
\* message and the values formatted into it, or a panic.
Ret(o, k, t, a, x) == [op |-> o, kind |-> k, text |-> t, arg |-> a, tx |-> x]

Ok(o) == Ret(o, "Ok", "", << >>, None)

Err(o, t, a) == Ret(o, "Err", t, a, None)

Panic(o, t) == Ret(o, "Panic", t, << >>, None)

\* TransactionData::new
TransactionData_new ==
    [value_balance |-> Zero, shielded_spends |-> << >>,
     shielded_outputs |-> << >>, binding_sig |-> None]

\* Builder::new
Builder_new(coin_type) ==
    [mtx |-> TransactionData_new,
     coin_type |-> coin_type,
     fee |-> N(0, DEFAULT_FEE),
     anchor |-> None,
     spends |-> << >>,
     outputs |-> << >>,
     change_address |-> None]

\* i64 `a + b` and `a - b` under the build's overflow behaviour: the exact
\* result when it fits, else a panic (overflow checks) or the wrapped result.
Arith(exact, checks) ==
    IF InI64(exact) THEN [panic |-> FALSE, val |-> exact]
    ELSE IF checks THEN [panic |-> TRUE, val |-> exact]
    ELSE [panic |-> FALSE, val |-> WrapI64(exact)]

\* Builder::set_fee
set_fee(self, fee) == [self EXCEPT !.fee = fee]

\* Lines 96-110 of add_sapling_spend: the spend is recorded.
SpendRecorded(self, account_id, diversifier, note, ar, witness, checks) ==
      LET s1 == IF self.anchor = None
                THEN [self EXCEPT !.anchor = Some(root(witness))]
                ELSE self
          sum == Arith(Add(s1.mtx.value_balance, WrapI64(note.value)), checks)
          s2 == [s1 EXCEPT !.mtx.value_balance = sum.val]
          p == path(witness)
      IN  IF sum.panic
          THEN [self |-> s1,
                ret |-> Panic("add_sapling_spend", "attempt to add with overflow")]
          ELSE IF ~p.ok
          THEN [self |-> s2, ret |-> Err("add_sapling_spend", "witness path", << >>)]
          ELSE [self |-> [s2 EXCEPT !.spends = Append(@,
                            [account_id |-> account_id, diversifier |-> diversifier,
                             note |-> note, ar |-> ar, witness |-> p.val])],
                ret |-> Ok("add_sapling_spend")]

\* add_sapling_spend without the comparison of the root with the anchor.
add_sapling_spend_any_root(self, account_id, diversifier, note, ar, witness, checks) ==
    SpendRecorded(self, account_id, diversifier, note, ar, witness, checks)

\* add_sapling_spend taking the root of a differing witness as the new anchor.
add_sapling_spend_moves_anchor(self, account_id, diversifier, note, ar, witness, checks) ==
    SpendRecorded([self EXCEPT !.anchor = None], account_id, diversifier, note, ar,
                  witness, checks)

\* Builder::add_sapling_spend: the builder after the call and what it returned.
add_sapling_spend(self, account_id, diversifier, note, ar, witness, checks) ==
    IF self.anchor # None /\ root(witness) # self.anchor[1]
    THEN [self |-> self,
          ret |-> Err("add_sapling_spend", "Anchor mismatch",
                      <<self.anchor[1], root(witness)>>)]
    ELSE SpendRecorded(self, account_id, diversifier, note, ar, witness, checks)

\* add_sapling_output subtracting the value before it looks at the address.
add_sapling_output_subtracts_first(self, ovk, to, value, memo, rcm, checks) ==
    LET g == g_d(to.diversifier)
        diff == Arith(Sub(self.mtx.value_balance, value), checks)
        note == [g_d |-> g[1], pk_d |-> to.pk_d, value |-> WrapU64(value), r |-> rcm]
    IN  IF diff.panic
        THEN [self |-> self,
              ret |-> Panic("add_sapling_output", "attempt to subtract with overflow")]
        ELSE IF g = None
        THEN [self |-> [self EXCEPT !.mtx.value_balance = diff.val],
              ret |-> Err("add_sapling_output", "Invalid target address", << >>)]
        ELSE [self |-> [self EXCEPT !.mtx.value_balance = diff.val,
                                    !.outputs = Append(@,
                                       [ovk |-> ovk, to |-> to, note |-> note,
                                        memo |-> IF memo = None THEN "" ELSE memo[1]])],
              ret |-> Ok("add_sapling_output")]

\* Builder::add_sapling_output, with rcm the randomness Fs::rand returns.
add_sapling_output(self, ovk, to, value, memo, rcm, checks) ==
    LET g == g_d(to.diversifier)
        diff == Arith(Sub(self.mtx.value_balance, value), checks)
        note == [g_d |-> g[1], pk_d |-> to.pk_d, value |-> WrapU64(value), r |-> rcm]
    IN  IF g = None
        THEN [self |-> self,
              ret |-> Err("add_sapling_output", "Invalid target address", << >>)]
        ELSE IF diff.panic
        THEN [self |-> self,
              ret |-> Panic("add_sapling_output", "attempt to subtract with overflow")]
        ELSE [self |-> [self EXCEPT !.mtx.value_balance = diff.val,
                                    !.outputs = Append(@,
                                       [ovk |-> ovk, to |-> to, note |-> note,
                                        memo |-> IF memo = None THEN "" ELSE memo[1]])],
              ret |-> Ok("add_sapling_output")]

\* The phase a call's return leaves an accumulating builder in.
PhaseAfter(ret) == IF ret.kind = "Panic" THEN "Panicked" ELSE "Accumulating"

Init ==
    /\ builder \in {Builder_new(c) : c \in CoinTypes}
    /\ phase = "Accumulating"
    /\ call = [op |-> "new", args |-> [coin_type |-> builder.coin_type]]
    /\ result = Ok("new")
    /\ log = << >>
    /\ overflow_checks \in BOOLEAN
    /\ calls = 0
    /\ paid_in = Zero
    /\ paid_out = Zero

SetFee ==
    /\ phase = "Accumulating"
    /\ \E fee \in FeeArgs :
         /\ builder' = set_fee(builder, fee)
         /\ call' = [op |-> "set_fee", args |-> [fee |-> fee]]
         /\ result' = Ok("set_fee")
    /\ UNCHANGED <<phase, log, overflow_checks, calls, paid_in, paid_out>>

AddSaplingSpend ==
    /\ phase = "Accumulating"
    /\ calls < MaxCalls
    /\ \E a \in SpendArgs :
         LET out == add_sapling_spend(builder, a.account_id, a.diversifier, a.note,
                                      a.ar, a.witness, overflow_checks)
         IN  /\ builder' = out.self
             /\ call' = [op |-> "add_sapling_spend", args |-> a]
             /\ result' = out.ret
             /\ phase' = PhaseAfter(out.ret)
             /\ paid_in' = IF out.ret.kind = "Ok" THEN Add(paid_in, a.note.value)
                           ELSE paid_in
    /\ calls' = calls + 1
    /\ UNCHANGED <<log, overflow_checks, paid_out>>

AddSaplingOutput ==
    /\ phase = "Accumulating"
    /\ calls < MaxCalls
    /\ \E a \in OutputArgs, rcm \in Rcms :
         LET out == add_sapling_output(builder, a.ovk, a.to, a.value, a.memo, rcm,
                                       overflow_checks)
         IN  /\ builder' = out.self
             /\ call' = [op |-> "add_sapling_output", args |-> a]
             /\ result' = out.ret
             /\ phase' = PhaseAfter(out.ret)
             /\ paid_out' = IF out.ret.kind = "Ok" THEN Add(paid_out, a.value)
                            ELSE paid_out
    /\ calls' = calls + 1
    /\ UNCHANGED <<log, overflow_checks, paid_in>>

\* ------------------------------------------------------------------------
\* Builder::build
\* ------------------------------------------------------------------------

\* The provers a build can be handed: spend_fail = k makes the k-th call of
\* spend_proof return an error (0: none does), binding_ok is whether the
\* proving context accepts the binding signature.
Provers(self) == [spend_fail : 0..Len(self.spends), binding_ok : BOOLEAN]

ConsensusBranchIds == {1}

\* Signature::blank()
blank == << >>

\* ProofGenerationKey::into_viewing_key: ak is the key's own, nk is made of
\* its nsk.
into_viewing_key(pgk) == [ak |-> <<"ak", pgk>>, nk |-> <<"nk", pgk>>]

\* Note::cm_full_point: the commitment to the value, g_d, pk_d and r of the
\* note.  The Pedersen commitment is taken to be binding: two notes have one
\* commitment only if they are one note.
cm_full_point(note) == <<"cm", note>>

\* BLAKE2s personalized "Zcash_nf" (PRF_NF_PERSONALIZATION) of nk | rho, taken
\* to be free of collisions.
PRF_NF(nk, rho) == <<"nf", nk, rho>>

\* The nullifier computed from the whole viewing key, ak included.
nf_of_whole_key(note, viewing_key, position) ==
    PRF_NF(viewing_key, <<"rho", cm_full_point(note), position>>)

\* Note::nf: rho = cm + position.G, nf = BLAKE2s(nk | rho).
nf(note, viewing_key, position) ==
    PRF_NF(viewing_key.nk, <<"rho", cm_full_point(note), position>>)

\* A 256-bit integer is the sequence of its 32 bytes, the least significant
\* first: a < b for two such integers.
Less(a, b) == \E i \in 1..32 : a[i] < b[i] /\ \A j \in (i + 1)..32 : a[j] = b[j]

\* The modulus of Fs, the scalar field of Jubjub:
\* 0x0e7db4ea6533afa906673b0101343b00a6682093ccc81082d0970e5ed6f72cb7.
FS_MODULUS ==
    << 183, 44, 247, 214, 94, 14, 151, 208, 130, 16, 200, 204, 147, 32, 104, 166,
       0, 59, 52, 1, 1, 59, 103, 6, 169, 175, 51, 101, 234, 180, 125, 14 >>

\* 2^251
TWO_251 == [i \in 1..32 |-> IF i = 32 THEN 8 ELSE 0]

\* Repr::read_le: the first 32 bytes, or an error when there are fewer.
read_le(bytes) == IF Len(bytes) >= 32 THEN Some(SubSeq(bytes, 1, 32)) ELSE None

\* Fs::from_repr: the scalar, or an error when the integer is not below the
\* modulus.
Fs_from_repr(repr) == IF Less(repr, FS_MODULUS) THEN Some(repr) ELSE None

\* The viewing keys ivk is applied to: ak and nk stand for the 32-byte
\* encodings of the two points.
ViewingKeys == [ak : 0..255, nk : 0..2]

\* BLAKE2s personalized "Zcashivk" (CRH_IVK_PERSONALIZATION) of ak | nk.  The
\* digest of a key has ak for its last byte and, for its other bytes, 0, 255
\* or the bytes of the modulus of Fs according to nk: every value of the last
\* byte occurs, with the smallest and the largest digests it allows, and the
\* modulus itself is a digest.
CRH_IVK(ak, nk) ==
    [i \in 1..32 |-> IF i = 32 THEN ak
                     ELSE IF nk = 0 THEN 0
                     ELSE IF nk = 1 THEN 255
                     ELSE FS_MODULUS[i]]

\* ivk clearing the three high bits of the last byte only.
ivk_clearing_three_bits(self) ==
    LET h == CRH_IVK(self.ak, self.nk)
        masked == [i \in 1..32 |-> IF i = 32 THEN h[i] % 32 ELSE h[i]]
        e == read_le(masked)
        scalar == Fs_from_repr(e[1])
    IN  IF scalar = None THEN Panic("ivk", "should be a valid scalar")
        ELSE Ret("ivk", "Ok", "", << >>, scalar)

\* ViewingKey::ivk: what the call returns, the scalar in the place of the
\* transaction of a build.
ivk(self) ==
    LET h == CRH_IVK(self.ak, self.nk)
        masked == [i \in 1..32 |-> IF i = 32 THEN h[i] % 8 ELSE h[i]]
        e == read_le(masked)
        scalar == Fs_from_repr(e[1])
    IN  IF scalar = None THEN Panic("ivk", "should be a valid scalar")
        ELSE Ret("ivk", "Ok", "", << >>, scalar)

\* signature_hash_data(&mtx, consensus_branch_id, SIGHASH_ALL, None)
signature_hash_data(mtx, consensus_branch_id) ==
    [mtx |-> mtx, consensus_branch_id |-> consensus_branch_id, hash_type |-> "SIGHASH_ALL"]

\* spend_sig(PrivateKey(ask), ar, &sighash, &JUBJUB)
spend_sig(ask, ar, sighash) == <<"spend_auth_sig", ask, ar, sighash>>

\* The state of a build in progress: the builder it consumes, the calls made
\* so far, and its return once it has one.
Running(self, events) == [self |-> self, log |-> events, ret |-> None]

Returned(self, events, ret) == [self |-> self, log |-> events, ret |-> Some(ret)]

\* Lines 169-190: the change address, or None when there is none.
ChangeAddress(self, master) ==
    IF self.change_address # None THEN self.change_address
    ELSE IF self.spends # << >>
    THEN LET xsk == from_path(master, <<32, self.coin_type, self.spends[1].account_id>>)
         IN  Some([ovk |-> ovk_of(xsk),
                   to |-> [diversifier |-> self.spends[1].diversifier,
                           pk_d |-> self.spends[1].note.pk_d]])
    ELSE None

\* A change output is made of a change of zero too.
ChangeOutput_of_zero(op, self, change, master, rcm, checks) ==
    LET change_address == ChangeAddress(self, master)
        taken == [self EXCEPT !.change_address = None]
        out == add_sapling_output(taken, change_address[1].ovk, change_address[1].to,
                                  change, None, rcm, checks)
    IN  IF IsNegative(change) THEN Running(self, << >>)
        ELSE IF change_address = None
        THEN Returned(self, << >>, Err(op, "No change address", << >>))
        ELSE IF out.ret.kind # "Ok"
        THEN Returned(out.self, << >>, [out.ret EXCEPT !.op = op])
        ELSE Running(out.self,
                     << [ev |-> "change_output", ovk |-> change_address[1].ovk,
                         to |-> change_address[1].to, value |-> change] >>)

\* No change output is made, whatever the change.
ChangeOutput_skipped(op, self, change, master, rcm, checks) == Running(self, << >>)

\* Lines 166-193: the change output, for a change that is not negative.
ChangeOutput(op, self, change, master, rcm, checks) ==
    LET change_address == ChangeAddress(self, master)
        taken == [self EXCEPT !.change_address = None]
        out == add_sapling_output(taken, change_address[1].ovk, change_address[1].to,
                                  change, None, rcm, checks)
    IN  IF ~IsPositive(change) THEN Running(self, << >>)
        ELSE IF change_address = None
        THEN Returned(self, << >>, Err(op, "No change address", << >>))
        ELSE IF out.ret.kind # "Ok"
        THEN Returned(out.self, << >>, [out.ret EXCEPT !.op = op])
        ELSE Running(out.self,
                     << [ev |-> "change_output", ovk |-> change_address[1].ovk,
                         to |-> change_address[1].to, value |-> change] >>)

\* The spends and their keys, the last added first.
SpendingKeys_last_first(self, master) ==
    [i \in 1..Len(self.spends) |->
        [xsk |-> from_path(master, <<32, self.coin_type,
                                     self.spends[Len(self.spends) + 1 - i].account_id>>),
         spend |-> self.spends[Len(self.spends) + 1 - i]]]

\* Lines 199-215: each spend with the extended spending key of its account.
SpendingKeys(self, master) ==
    [i \in 1..Len(self.spends) |->
        [xsk |-> from_path(master, <<32, self.coin_type, self.spends[i].account_id>>),
         spend |-> self.spends[i]]]

\* Lines 224-254: the spend descriptions, from the i-th spend on.
RECURSIVE SpendDescriptions(_, _, _, _, _, _)
SpendDescriptions(op, st, spends, anchor, prover, i) ==
    IF i > Len(spends) THEN st
    ELSE
      LET xsk == spends[i].xsk
          spend == spends[i].spend
          pgk == proof_generation_key(xsk)
          nullifier == nf(spend.note, into_viewing_key(pgk), spend.witness.position)
          request == [ev |-> "spend_proof", index |-> i, proof_generation_key |-> pgk,
                   diversifier |-> spend.diversifier, rcm |-> spend.note.r,
                   ar |-> spend.ar, value |-> spend.note.value, anchor |-> anchor,
                   witness |-> spend.witness, ok |-> prover.spend_fail # i]
          desc == [cv |-> <<"cv", spend.note.value>>,
                   anchor |-> anchor,
                   nullifier |-> nullifier,
                   rk |-> <<"rk", pgk, spend.ar>>,
                   zkproof |-> <<"spend", pgk, spend.diversifier, spend.witness>>,
                   spend_auth_sig |-> blank]
      IN  IF prover.spend_fail = i
          THEN Returned(st.self, Append(st.log, request), Err(op, "spend proof", << >>))
          ELSE SpendDescriptions(op,
                 Running([st.self EXCEPT !.mtx.shielded_spends = Append(@, desc)],
                         Append(st.log, request)),
                 spends, anchor, prover, i + 1)

\* Lines 256-288: the output descriptions, from the j-th output on.
RECURSIVE OutputDescriptions(_, _, _)
OutputDescriptions(st, outputs, j) ==
    IF j > Len(outputs) THEN st
    ELSE
      LET output == outputs[j]
          request == [ev |-> "output_proof", index |-> j, to |-> output.to,
                   rcm |-> output.note.r, value |-> output.note.value]
          cv == <<"cv", output.note.value>>
          cmu == <<"cm", output.note>>
          desc == [cv |-> cv,
                   cmu |-> cmu,
                   ephemeral_key |-> <<"epk", output.note.g_d>>,
                   enc_ciphertext |-> <<"enc", output.note, output.to, output.memo>>,
                   out_ciphertext |-> <<"out", output.ovk, cv, cmu>>,
                   zkproof |-> <<"output", output.to, output.note.r>>]
      IN  OutputDescriptions(
             Running([st.self EXCEPT !.mtx.shielded_outputs = Append(@, desc)],
                     Append(st.log, request)),
             outputs, j + 1)

\* No spend authorization signature is made.
SpendAuthSigs_none(st, spends, sighash, i) == st

\* Lines 302-306: the spend authorization signatures, from the i-th spend on.
RECURSIVE SpendAuthSigs(_, _, _, _)
SpendAuthSigs(st, spends, sighash, i) ==
    IF i > Len(spends) THEN st
    ELSE
      LET xsk == spends[i].xsk
          spend == spends[i].spend
          sig == spend_sig(ask_of(xsk), spend.ar, sighash)
      IN  SpendAuthSigs(
             Running([st.self EXCEPT !.mtx.shielded_spends[i].spend_auth_sig = sig],
                     Append(st.log, [ev |-> "spend_sig", index |-> i, ask |-> ask_of(xsk),
                                     ar |-> spend.ar, sighash |-> sighash])),
             spends, sighash, i + 1)

\* The spends are signed first, and the sighash taken of the signed data.
Signatures_then_sighash(op, st, spends, consensus_branch_id, prover) ==
    LET early == signature_hash_data(st.self.mtx, consensus_branch_id)
        signed == SpendAuthSigs(st, spends, early, 1)
        sighash == signature_hash_data(signed.self.mtx, consensus_branch_id)
        hashed == Append(signed.log, [ev |-> "sighash", sighash |-> sighash])
        value_balance == signed.self.mtx.value_balance
        called == Append(hashed, [ev |-> "binding_sig", value_balance |-> value_balance,
                                  sighash |-> sighash, ok |-> prover.binding_ok])
        final == [signed.self EXCEPT !.mtx.binding_sig =
                     Some(<<"binding_sig", value_balance, sighash>>)]
    IN  IF ~prover.binding_ok
        THEN Returned(signed.self, called, Err(op, "Failed to create bindingSig", << >>))
        ELSE Returned(final, called, Ret(op, "Ok", "", << >>, Some(final.mtx)))

\* Lines 294-312: the sighash, the signatures and the frozen transaction.
Signatures(op, st, spends, consensus_branch_id, prover) ==
    LET sighash == signature_hash_data(st.self.mtx, consensus_branch_id)
        hashed == Running(st.self, Append(st.log, [ev |-> "sighash", sighash |-> sighash]))
        signed == SpendAuthSigs(hashed, spends, sighash, 1)
        value_balance == signed.self.mtx.value_balance
        called == Append(signed.log, [ev |-> "binding_sig", value_balance |-> value_balance,
                                      sighash |-> sighash, ok |-> prover.binding_ok])
        final == [signed.self EXCEPT !.mtx.binding_sig =
                     Some(<<"binding_sig", value_balance, sighash>>)]
    IN  IF ~prover.binding_ok
        THEN Returned(signed.self, called, Err(op, "Failed to create bindingSig", << >>))
        ELSE Returned(final, called, Ret(op, "Ok", "", << >>, Some(final.mtx)))

\* The failure of a spend proof is returned after the output proofs.
Prove_returning_late(op, st, master, consensus_branch_id, prover) ==
    LET spends == SpendingKeys(st.self, master)
        created == Append(st.log, [ev |-> "ctx_new"])
        anchor == st.self.anchor[1]
        proved == SpendDescriptions(op, Running(st.self, created), spends, anchor, prover, 1)
        described == OutputDescriptions(proved, st.self.outputs, 1)
    IN  IF st.self.anchor = None
        THEN Returned(st.self, created, Panic(op, "anchor was set if spends were added"))
        ELSE IF proved.ret # None
        THEN Returned(described.self, described.log, proved.ret[1])
        ELSE Signatures(op, described, spends, consensus_branch_id, prover)

\* Lines 217-312: the proving context, the descriptions and the signatures.
Prove(op, st, master, consensus_branch_id, prover) ==
    LET spends == SpendingKeys(st.self, master)
        created == Append(st.log, [ev |-> "ctx_new"])
        anchor == st.self.anchor[1]
        proved == SpendDescriptions(op, Running(st.self, created), spends, anchor, prover, 1)
        described == OutputDescriptions(proved, st.self.outputs, 1)
    IN  IF st.self.anchor = None
        THEN Returned(st.self, created, Panic(op, "anchor was set if spends were added"))
        ELSE IF proved.ret # None THEN proved
        ELSE Signatures(op, described, spends, consensus_branch_id, prover)

\* build creating the proving context before it checks the change.
build_proving_first(self, consensus_branch_id, master, prover, rcm, checks) ==
    LET change == Arith(Sub(self.mtx.value_balance, self.fee), checks)
        created == << [ev |-> "ctx_new"] >>
        changed == ChangeOutput("build", self, change.val, master, rcm, checks)
    IN  IF change.panic
        THEN Returned(self, created, Panic("build", "attempt to subtract with overflow"))
        ELSE IF IsNegative(change.val)
        THEN Returned(self, created, Err("build", "Change is negative", <<change.val>>))
        ELSE IF changed.ret # None
        THEN Returned(changed.self, created, changed.ret[1])
        ELSE Prove("build", changed, master, consensus_branch_id, prover)

\* Builder::build: the builder as the call leaves it, the calls it made and
\* what it returned.
build(self, consensus_branch_id, master, prover, rcm, checks) ==
    LET change == Arith(Sub(self.mtx.value_balance, self.fee), checks)
        changed == ChangeOutput("build", self, change.val, master, rcm, checks)
    IN  IF change.panic
        THEN Returned(self, << >>, Panic("build", "attempt to subtract with overflow"))
        ELSE IF IsNegative(change.val)
        THEN Returned(self, << >>, Err("build", "Change is negative", <<change.val>>))
        ELSE IF changed.ret # None THEN changed
        ELSE Prove("build", changed, master, consensus_branch_id, prover)

\* Builder::build_no_sign: the same steps as build, line for line.
build_no_sign(self, consensus_branch_id, master, prover, rcm, checks) ==
    LET change == Arith(Sub(self.mtx.value_balance, self.fee), checks)
        changed == ChangeOutput("build_no_sign", self, change.val, master, rcm, checks)
    IN  IF change.panic
        THEN Returned(self, << >>, Panic("build_no_sign", "attempt to subtract with overflow"))
        ELSE IF IsNegative(change.val)
        THEN Returned(self, << >>, Err("build_no_sign", "Change is negative", <<change.val>>))
        ELSE IF changed.ret # None THEN changed
        ELSE Prove("build_no_sign", changed, master, consensus_branch_id, prover)

\* A build that returns an error hands the builder back.
PhaseAfterBuild_returns_builder(ret) ==
    IF ret.kind = "Ok" THEN "Built"
    ELSE IF ret.kind = "Panic" THEN "Panicked"
    ELSE "Accumulating"

\* The phase a build's return leaves the builder in.
PhaseAfterBuild(ret) ==
    IF ret.kind = "Ok" THEN "Built"
    ELSE IF ret.kind = "Panic" THEN "Panicked"
    ELSE "Failed"

Build ==
    /\ phase = "Accumulating"
    /\ \E id \in ConsensusBranchIds, prover \in Provers(builder), rcm \in Rcms :
         LET out == build(builder, id, Master, prover, rcm, overflow_checks)
         IN  /\ builder' = out.self
             /\ call' = [op |-> "build", args |-> [consensus_branch_id |-> id]]
             /\ log' = out.log
             /\ result' = out.ret[1]
             /\ phase' = PhaseAfterBuild(out.ret[1])
    /\ UNCHANGED <<overflow_checks, calls, paid_in, paid_out>>

BuildNoSign ==
    /\ phase = "Accumulating"
    /\ \E id \in ConsensusBranchIds, prover \in Provers(builder), rcm \in Rcms :
         LET out == build_no_sign(builder, id, Master, prover, rcm, overflow_checks)
         IN  /\ builder' = out.self
             /\ call' = [op |-> "build_no_sign", args |-> [consensus_branch_id |-> id]]
             /\ log' = out.log
             /\ result' = out.ret[1]
             /\ phase' = PhaseAfterBuild(out.ret[1])
    /\ UNCHANGED <<overflow_checks, calls, paid_in, paid_out>>

Next ==
    \/ SetFee
    \/ AddSaplingSpend
    \/ AddSaplingOutput
    \/ Build
    \/ BuildNoSign

Spec == Init /\ [][Next]_vars

\* ------------------------------------------------------------------------
\* The Sapling primitives, each applied once to inputs of the sets below
\* ------------------------------------------------------------------------

\* The notes, viewing keys and positions nf is applied to.
NfArgs ==
    [note : {Note("d1", "pkA", N(0, 1), 3), Note("d1", "pkA", N(0, 2), 3),
             Note("d1", "pkA", N(0, 1), 4), Note("d2", "pkB", N(0, 1), 3)},
     viewing_key : [ak : 0..1, nk : 0..1],
     position : 0..MaxPosition]

\* ViewingKey::ivk is called.
Ivk ==
    /\ call.op = "new"
    /\ \E vk \in ViewingKeys :
         /\ call' = [op |-> "ivk", args |-> [self |-> vk]]
         /\ result' = ivk(vk)
    /\ UNCHANGED <<builder, phase, log, overflow_checks, calls, paid_in, paid_out>>

\* Note::nf is called twice; the build's place of the transaction holds the
\* two nullifiers.
NoteNf ==
    /\ call.op = "new"
    /\ \E a \in NfArgs, b \in NfArgs :
         /\ call' = [op |-> "nf", args |-> [first |-> a, second |-> b]]
         /\ result' = Ret("nf", "Ok", "", << >>,
                          << nf(a.note, a.viewing_key, a.position),
                             nf(b.note, b.viewing_key, b.position) >>)
    /\ UNCHANGED <<builder, phase, log, overflow_checks, calls, paid_in, paid_out>>

PrimitivesNext ==
    \/ Ivk
    \/ NoteNf

PrimitivesSpec == Init /\ [][PrimitivesNext]_vars

\* ------------------------------------------------------------------------
\* The scanner (src/zcash_client_backend/src/welding_rig/mod.rs)
\* ------------------------------------------------------------------------

\* The modulus of Fr, the scalar field of BLS12-381:
\* 0x73eda753299d7d483339d80809a1d80553bda402fffe5bfeffffffff00000001.
FR_MODULUS ==
    << 1, 0, 0, 0, 255, 255, 255, 255, 254, 91, 254, 255, 2, 164, 189, 83,
       5, 216, 161, 9, 8, 216, 57, 51, 72, 125, 157, 41, 83, 167, 237, 115 >>

\* Fr::from_repr: the field element, or an error when the integer is not
\* below the modulus.
Fr_from_repr(repr) == IF Less(repr, FR_MODULUS) THEN Some(repr) ELSE None

\* edwards::Point::read: the point the bytes encode, or an error when they
\* encode none.  The bytes of an epk are written as what they decode to.
Point_read(bytes) == IF bytes.on_curve THEN Some(bytes) ELSE None

\* Point::as_prime_order: the point, when it is in the prime-order subgroup.
as_prime_order(p) == IF p.prime_order THEN Some(p) ELSE None

\* try_sapling_compact_note_decryption: the note the ciphertext holds for
\* the ivk, or an error.  A ciphertext is written as the set of the (ivk,
\* value) it decrypts to; no ciphertext holds two values for one ivk.  The
\* ciphertexts are of the 52 bytes of the compact form.
try_sapling_compact_note_decryption(ivk_, epk, cmu, enc_ct) ==
    IF \E n \in enc_ct : n.ivk = ivk_
    THEN [ok |-> TRUE, note |-> [value |-> (CHOOSE n \in enc_ct : n.ivk = ivk_).value]]
    ELSE [ok |-> FALSE]

\* trial_decrypt
trial_decrypt(cmu, epk, enc_ct, ivk_) ==
    LET r == try_sapling_compact_note_decryption(ivk_, epk, cmu, enc_ct)
    IN  IF r.ok THEN Some(r.note.value) ELSE None

\* Lines 53-72 taking the last ivk that decrypts, not the first.
TrialDecrypts_last_match(index, cmu, epk, ct, ivks, i, trials) ==
    LET matching == {k \in 1..Len(ivks) : trial_decrypt(cmu, epk, ct, ivks[k]) # None}
        last == CHOOSE k \in matching : \A m \in matching : m <= k
        tried == [k \in 1..Len(ivks) |->
                     [ev |-> "trial_decrypt", index |-> index, account |-> k - 1]]
    IN  IF matching = {} THEN [ret |-> None, trials |-> tried]
        ELSE [ret |-> Some([index |-> index, cmu |-> cmu, epk |-> epk, enc_ct |-> ct,
                            account |-> last - 1,
                            value |-> trial_decrypt(cmu, epk, ct, ivks[last])[1]]),
              trials |-> tried]

\* Lines 53-72: the loop over the ivks from the i-th on, account i - 1, with
\* the calls of trial_decrypt made before.
RECURSIVE TrialDecrypts(_, _, _, _, _, _, _)
TrialDecrypts(index, cmu, epk, ct, ivks, i, trials) ==
    IF i > Len(ivks) THEN [ret |-> None, trials |-> trials]
    ELSE
      LET value == trial_decrypt(cmu, epk, ct, ivks[i])
          tried == Append(trials, [ev |-> "trial_decrypt", index |-> index,
                                   account |-> i - 1])
      IN  IF value = None
          THEN TrialDecrypts(index, cmu, epk, ct, ivks, i + 1, tried)
          ELSE [ret |-> Some([index |-> index, cmu |-> cmu, epk |-> epk, enc_ct |-> ct,
                              account |-> i - 1, value |-> value[1]]),
                trials |-> tried]

\* scan_output skipping the parsing of cmu and epk.
scan_output_unparsed(index, output, ivks) ==
    TrialDecrypts(index, output.cmu, output.epk, output.ciphertext, ivks, 1, << >>)

\* scan_output: what it returns and the calls of trial_decrypt it made.
scan_output(index, output, ivks) ==
    LET repr == read_le(output.cmu)
        cmu == Fr_from_repr(repr[1])
        p == Point_read(output.epk)
        epk == as_prime_order(p[1])
    IN  IF repr = None THEN [ret |-> None, trials |-> << >>]
        ELSE IF cmu = None THEN [ret |-> None, trials |-> << >>]
        ELSE IF p = None THEN [ret |-> None, trials |-> << >>]
        ELSE IF epk = None THEN [ret |-> None, trials |-> << >>]
        ELSE TrialDecrypts(index, cmu[1], epk[1], output.ciphertext, ivks, 1, << >>)

\* Lines 84-88: the outputs from the j-th on, scanned in order.
RECURSIVE ScanOutputs(_, _, _, _)
ScanOutputs(outputs, ivks, j, st) ==
    IF j > Len(outputs) THEN st
    ELSE
      LET r == scan_output(j - 1, outputs[j], ivks)
      IN  ScanOutputs(outputs, ivks, j + 1,
                      [found |-> IF r.ret = None THEN st.found
                                 ELSE Append(st.found, r.ret[1]),
                       trials |-> st.trials \o r.trials])

\* scan_tx: Ok with what it returns and the calls of trial_decrypt it made,
\* or a panic.
scan_tx(tx, extfvks) ==
    LET num_spends == Len(tx.spends)
        num_outputs == Len(tx.outputs)
        keys == [i \in 1..Len(extfvks) |-> ivk(extfvks[i].fvk.vk)]
        ivks == [i \in 1..Len(extfvks) |-> keys[i].tx[1]]
        scanned == ScanOutputs(tx.outputs, ivks, 1, [found |-> << >>, trials |-> << >>])
    IN  IF \E i \in 1..Len(extfvks) : keys[i].kind = "Panic"
        THEN [kind |-> "Panic", text |-> "should be a valid scalar", ret |-> None,
              trials |-> << >>]
        ELSE IF scanned.found = << >>
        THEN [kind |-> "Ok", text |-> "", ret |-> None, trials |-> scanned.trials]
        ELSE IF Len(tx.txHash) # 32
        THEN [kind |-> "Panic",
              text |-> "source slice length does not match destination slice length",
              ret |-> None, trials |-> scanned.trials]
        ELSE [kind |-> "Ok", text |-> "",
              ret |-> Some([txid |-> tx.txHash, num_spends |-> num_spends,
                            num_outputs |-> num_outputs,
                            shielded_outputs |-> scanned.found]),
              trials |-> scanned.trials]

\* Lines 108-112: the transactions from the k-th on, scanned in order.
RECURSIVE ScanTxs(_, _, _, _)
ScanTxs(vtx, extfvks, k, st) ==
    IF k > Len(vtx) THEN st
    ELSE
      LET r == scan_tx(vtx[k], extfvks)
      IN  IF r.kind = "Panic"
          THEN [r EXCEPT !.ret = << >>, !.trials = st.trials \o r.trials]
          ELSE ScanTxs(vtx, extfvks, k + 1,
                       [st EXCEPT !.ret = IF r.ret = None THEN @ ELSE Append(@, r.ret[1]),
                                  !.trials = @ \o r.trials])

\* scan_block: Ok with the WalletTxs it returns and the calls of
\* trial_decrypt it made, or a panic.
scan_block(block, extfvks) ==
    ScanTxs(block.vtx, extfvks, 1,
            [kind |-> "Ok", text |-> "", ret |-> << >>, trials |-> << >>])

\* The sequences of at most n elements of S.
SeqsUpTo(S, n) == UNION {[1..k -> S] : k \in 0..n}

\* The two extended full viewing keys of the wallet, and the lists of them
\* the scanner is given.
Extfvk(vk) == [fvk |-> [vk |-> vk]]

K1 == Extfvk([ak |-> 1, nk |-> 0])

K2 == Extfvk([ak |-> 2, nk |-> 1])

IvkOf(extfvk) == ivk(extfvk.fvk.vk).tx[1]

KeyLists == {<< >>, <<K1>>, <<K1, K2>>, <<K2, K1>>}

\* The 32 bytes of a small cmu, and 32 bytes that are no element of Fr.
Cmu(c) == [i \in 1..32 |-> IF i = 1 THEN c ELSE 0]

NotInFr == [i \in 1..32 |-> 255]

\* An epk that parses, one of small order and one that is no point.
GoodEpk == [on_curve |-> TRUE, prime_order |-> TRUE]

SmallOrderEpk == [on_curve |-> TRUE, prime_order |-> FALSE]

NoPointEpk == [on_curve |-> FALSE, prime_order |-> FALSE]

CompactOutput(cmu, epk, ciphertext) == [cmu |-> cmu, epk |-> epk, ciphertext |-> ciphertext]

\* An output to the address of K1 of value 12345.
ToK1 == CompactOutput(Cmu(1), GoodEpk, {[ivk |-> IvkOf(K1), value |-> 12345]})

\* An output both keys decrypt, to different values.
ToBoth == CompactOutput(Cmu(2), GoodEpk, {[ivk |-> IvkOf(K1), value |-> 5],
                                          [ivk |-> IvkOf(K2), value |-> 6]})

\* An output of somebody else.
ToNobody == CompactOutput(Cmu(3), GoodEpk, {})

\* Outputs K1 would decrypt, with a cmu or an epk that does not parse.
BadCmu == CompactOutput(NotInFr, GoodEpk, {[ivk |-> IvkOf(K1), value |-> 7]})

BadEpk == CompactOutput(Cmu(4), SmallOrderEpk, {[ivk |-> IvkOf(K1), value |-> 8]})

ShortCmu == CompactOutput([i \in 1..31 |-> 0], GoodEpk, {[ivk |-> IvkOf(K1), value |-> 9]})

NoPoint == CompactOutput(Cmu(5), NoPointEpk, {[ivk |-> IvkOf(K2), value |-> 10]})

CompactOutputs == {ToK1, ToBoth, ToNobody, BadCmu, BadEpk}

\* A transaction hash of 32 bytes, and one a byte short.
Hash32 == [i \in 1..32 |-> 1]

Hash31 == [i \in 1..31 |-> 2]

CompactTx(txHash, outputs) ==
    [txHash |-> txHash, spends |-> <<"spend", "spend", "spend">>, outputs |-> outputs]

CompactTxs ==
    {CompactTx(Hash32, outputs) : outputs \in SeqsUpTo(CompactOutputs, MaxOutputs)}
    \cup {CompactTx(Hash31, <<ToK1>>), CompactTx(Hash31, <<ToNobody>>)}

\* The transactions of the blocks: to the first key, to nobody, with a
\* malformed output before or after an output to the key, with an output
\* of both keys, without outputs, and with a short hash.
BlockTxs ==
    {CompactTx(Hash32, <<ToK1>>), CompactTx(Hash32, <<ToNobody>>),
     CompactTx(Hash32, <<BadCmu, ToK1>>), CompactTx(Hash32, <<ToK1, BadEpk>>),
     CompactTx(Hash32, <<BadEpk>>), CompactTx(Hash32, <<ToBoth, ToK1>>),
     CompactTx(Hash32, << >>),
     CompactTx(Hash31, <<ToK1>>), CompactTx(Hash31, <<ToNobody>>)}

CompactBlocks == [vtx : SeqsUpTo(BlockTxs, MaxTxs)]

\* scan_output is called.
ScanOutput ==
    /\ call.op = "new"
    /\ \E index \in 0..(MaxOutputs - 1),
          output \in CompactOutputs \cup {ShortCmu, NoPoint},
          extfvks \in KeyLists :
         LET ivks == [i \in 1..Len(extfvks) |-> IvkOf(extfvks[i])]
             r == scan_output(index, output, ivks)
         IN  /\ call' = [op |-> "scan_output",
                         args |-> [index |-> index, output |-> output, ivks |-> ivks]]
             /\ result' = Ret("scan_output", "Ok", "", << >>, r.ret)
             /\ log' = r.trials
    /\ UNCHANGED <<builder, phase, overflow_checks, calls, paid_in, paid_out>>

\* scan_tx is called.
ScanTx ==
    /\ call.op = "new"
    /\ \E tx \in CompactTxs, extfvks \in KeyLists :
         LET r == scan_tx(tx, extfvks)
         IN  /\ call' = [op |-> "scan_tx", args |-> [tx |-> tx, extfvks |-> extfvks]]
             /\ result' = Ret("scan_tx", r.kind, r.text, << >>, r.ret)
             /\ log' = r.trials
    /\ UNCHANGED <<builder, phase, overflow_checks, calls, paid_in, paid_out>>

\* scan_block is called.
ScanBlock ==
    /\ call.op = "new"
    /\ \E block \in CompactBlocks, extfvks \in KeyLists :
         LET r == scan_block(block, extfvks)
         IN  /\ call' = [op |-> "scan_block",
                         args |-> [block |-> block, extfvks |-> extfvks]]
             /\ result' = Ret("scan_block", r.kind, r.text, << >>, r.ret)
             /\ log' = r.trials
    /\ UNCHANGED <<builder, phase, overflow_checks, calls, paid_in, paid_out>>

ScanNext ==
    \/ ScanOutput
    \/ ScanTx
    \/ ScanBlock

ScanSpec == Init /\ [][ScanNext]_vars

\* ------------------------------------------------------------------------
\* Properties
\* ------------------------------------------------------------------------

\* The places in the log of the calls of one kind.
Events(e) == {k \in 1..Len(log) : log[k].ev = e}

\* The calls of one kind, in the order they were made.
Requests(e) == SelectSeq(log, LAMBDA x : x.ev = e)

\* The extended spending key build derives for a spend.
KeyOf(self, spend) == from_path(Master, <<32, self.coin_type, spend.account_id>>)

\* C1. Value-balance accounting: while the builder accumulates, its
\* value_balance is the sum of the note values of the spends added minus the
\* sum of the values of the outputs added.
C1_ValueBalanceAccounting ==
    phase = "Accumulating" =>
        builder.mtx.value_balance = Sub(paid_in, paid_out)

\* C2. Anchor consistency: once the anchor is recorded, an add_sapling_spend
\* whose witness root differs from it fails with the anchor-mismatch error
\* naming both roots, and leaves the whole builder as it was.
C2_AnchorMismatchLeavesBuilder ==
    [][ ( /\ call'.op = "add_sapling_spend"
          /\ builder.anchor # None
          /\ root(call'.args.witness) # builder.anchor[1] )
        => ( /\ result' = Err("add_sapling_spend", "Anchor mismatch",
                              <<builder.anchor[1], root(call'.args.witness)>>)
             /\ builder' = builder ) ]_vars

\* A second spend with another root was refused after a first was recorded.
C2_Witness ==
    /\ call.op = "add_sapling_spend"
    /\ result.text = "Anchor mismatch"
    /\ Len(builder.spends) = 1
    /\ builder.anchor = Some("R1")
    /\ root(call.args.witness) = "R2"

\* C3. Value check: whenever value_balance - fee is negative when build is
\* called, build returns the error "Change is negative" carrying exactly
\* value_balance - fee, and no transaction.
C3_ChangeNegative ==
    [][ ( /\ call'.op = "build"
          /\ IsNegative(Sub(builder.mtx.value_balance, builder.fee)) )
        => ( /\ result'.kind = "Err"
             /\ result'.text = "Change is negative"
             /\ result'.arg = <<Sub(builder.mtx.value_balance, builder.fee)>>
             /\ result'.tx = None ) ]_vars

\* The change output of a build: one output more than before the call, the
\* last, of value change, with an empty memo, to the address of the first
\* spend and under the outgoing viewing key of its account; added before the
\* proving context exists, and proved with the others when outputs are.
ChangeAppended(pre, post, events, change) ==
    /\ Len(post.outputs) = Len(pre.outputs) + 1
    /\ SubSeq(post.outputs, 1, Len(pre.outputs)) = pre.outputs
    /\ LET output == post.outputs[Len(post.outputs)]
       IN  /\ output.note.value = change
           /\ output.memo = ""
           /\ output.to = [diversifier |-> pre.spends[1].diversifier,
                           pk_d |-> pre.spends[1].note.pk_d]
           /\ output.ovk = ovk_of(KeyOf(pre, pre.spends[1]))
    /\ events # << >>
    /\ events[1].ev = "change_output"
    /\ \A k \in 1..Len(events) :
           events[k].ev = "output_proof" =>
               \E m \in 1..Len(events) :
                   /\ events[m].ev = "output_proof"
                   /\ events[m].index = Len(post.outputs)
                   /\ events[m].value = change

\* C4. Auto-change: a build whose change value_balance - fee is positive, on
\* a builder with spends, no change address and a first spend whose
\* diversifier is an address's, appends the change output.
C4_AutoChange ==
    [][ ( /\ call'.op = "build"
          /\ IsPositive(Sub(builder.mtx.value_balance, builder.fee))
          /\ builder.change_address = None
          /\ builder.spends # << >>
          /\ g_d(builder.spends[1].diversifier) # None )
        => ChangeAppended(builder, builder', log',
                          Sub(builder.mtx.value_balance, builder.fee)) ]_vars

\* C5. NoChangeAddress: a build whose change value_balance - fee is positive,
\* on a builder with no change address and no spends, returns the error
\* "No change address" and no transaction.
C5_NoChangeAddress ==
    [][ ( /\ call'.op = "build"
          /\ IsPositive(Sub(builder.mtx.value_balance, builder.fee))
          /\ builder.change_address = None
          /\ builder.spends = << >> )
        => result' = Err("build", "No change address", << >>) ]_vars

\* C6. Sighash ordering: a build computes the sighash at most once, and once
\* when it returns a transaction; the hashed data holds a description for
\* every spend and every output (the change output included), every spend
\* authorization signature blank and no binding signature; every proof
\* precedes the sighash and every signature follows it and signs it; the
\* binding signature is made for the value_balance the sighash covers.
C6_SighashOrdering ==
    call.op = "build" =>
        /\ Cardinality(Events("sighash")) <= 1
        /\ result.kind = "Ok" => Cardinality(Events("sighash")) = 1
        /\ Events("spend_sig") \cup Events("binding_sig") # {} => Events("sighash") # {}
        /\ \A h \in Events("sighash") :
             LET hashed == log[h].sighash.mtx
             IN  /\ Len(hashed.shielded_spends) = Len(builder.spends)
                 /\ Len(hashed.shielded_outputs) = Len(builder.outputs)
                 /\ \A i \in 1..Len(hashed.shielded_spends) :
                        hashed.shielded_spends[i].spend_auth_sig = blank
                 /\ hashed.binding_sig = None
                 /\ \A k \in Events("change_output") \cup Events("spend_proof")
                               \cup Events("output_proof") : k < h
                 /\ \A k \in Events("spend_sig") \cup Events("binding_sig") :
                        k > h /\ log[k].sighash = log[h].sighash
                 /\ \A k \in Events("binding_sig") :
                        log[k].value_balance = hashed.value_balance

\* A build of two spends and a change output returned a transaction.
C6_Witness ==
    /\ call.op = "build"
    /\ result.kind = "Ok"
    /\ Len(builder.spends) = 2
    /\ Events("change_output") # {}
    /\ Cardinality(Events("spend_sig")) = 2

\* C7. Insertion order: build asks for the spend proofs in the order of the
\* spends and for the output proofs in the order of the outputs, the change
\* output last, every spend proof before every output proof; in the
\* transaction the i-th spend description and signature are those of the
\* i-th spend and the j-th output description that of the j-th output.
C7_InsertionOrder ==
    call.op = "build" =>
        LET spends == builder.spends
            outputs == builder.outputs
            sp == Requests("spend_proof")
            op == Requests("output_proof")
        IN  /\ Len(sp) <= Len(spends)
            /\ \A i \in 1..Len(sp) :
                 /\ sp[i].proof_generation_key = proof_generation_key(KeyOf(builder, spends[i]))
                 /\ sp[i].diversifier = spends[i].diversifier
                 /\ sp[i].rcm = spends[i].note.r
                 /\ sp[i].ar = spends[i].ar
                 /\ sp[i].value = spends[i].note.value
                 /\ sp[i].witness = spends[i].witness
            /\ Len(op) \in {0, Len(outputs)}
            /\ \A j \in 1..Len(op) :
                 /\ op[j].to = outputs[j].to
                 /\ op[j].rcm = outputs[j].note.r
                 /\ op[j].value = outputs[j].note.value
            /\ \A k \in Events("spend_proof"), m \in Events("output_proof") : k < m
            /\ \A k \in Events("change_output") :
                 /\ outputs[Len(outputs)].to = log[k].to
                 /\ outputs[Len(outputs)].note.value = log[k].value
            /\ result.kind = "Ok" =>
                 LET tx == result.tx[1]
                 IN  /\ Len(tx.shielded_spends) = Len(spends)
                     /\ Len(tx.shielded_outputs) = Len(outputs)
                     /\ Len(sp) = Len(spends)
                     /\ Len(op) = Len(outputs)
                     /\ \A i \in 1..Len(spends) :
                          LET pgk == proof_generation_key(KeyOf(builder, spends[i]))
                          IN  /\ tx.shielded_spends[i].nullifier =
                                   nf(spends[i].note, into_viewing_key(pgk),
                                      spends[i].witness.position)
                              /\ tx.shielded_spends[i].rk = <<"rk", pgk, spends[i].ar>>
                              /\ tx.shielded_spends[i].cv = <<"cv", spends[i].note.value>>
                              /\ tx.shielded_spends[i].spend_auth_sig =
                                   spend_sig(ask_of(KeyOf(builder, spends[i])), spends[i].ar,
                                             log[CHOOSE h \in Events("sighash") : TRUE].sighash)
                     /\ \A j \in 1..Len(outputs) :
                          /\ tx.shielded_outputs[j].cmu = <<"cm", outputs[j].note>>
                          /\ tx.shielded_outputs[j].enc_ciphertext =
                               <<"enc", outputs[j].note, outputs[j].to, outputs[j].memo>>

\* A build of two different spends, an output and the change output returned
\* a transaction.
C7_Witness ==
    /\ call.op = "build"
    /\ result.kind = "Ok"
    /\ Len(builder.spends) = 2
    /\ builder.spends[1] # builder.spends[2]
    /\ Len(builder.outputs) = 2
    /\ Events("change_output") # {}
    /\ builder.outputs[1] # builder.outputs[2]

\* C8. Builder lifecycle: the builder accumulates from construction; only an
\* accumulating builder takes a call; it is Built exactly by a build that
\* returns a transaction; and every build, whatever it returns, leaves it
\* consumed.
C8_Lifecycle ==
    /\ phase = "Accumulating"
    /\ [][ /\ phase = "Accumulating"
           /\ (phase' = "Built") <=>
                 (call'.op \in {"build", "build_no_sign"} /\ result'.kind = "Ok")
           /\ call'.op \in {"build", "build_no_sign"} => phase' # "Accumulating"
           /\ call'.op \notin {"build", "build_no_sign"} /\ result'.kind # "Panic"
                 => phase' = "Accumulating" ]_vars

\* A build failed and left the builder consumed.
C8_Witness ==
    /\ call.op = "build"
    /\ result.kind = "Err"
    /\ phase = "Failed"

\* C9. No partial transaction escapes: a transaction build returns has a
\* spend description for each spend, each with a spend authorization
\* signature, an output description for each output added and for the change
\* output, and a binding signature; a build that fails returns no
\* transaction.
C9_NoPartialTransaction ==
    [][ call'.op = "build" =>
          /\ result'.kind = "Ok" =>
               LET tx == result'.tx[1]
                   changes == {k \in 1..Len(log') : log'[k].ev = "change_output"}
               IN  /\ result'.tx # None
                   /\ Len(tx.shielded_spends) = Len(builder.spends)
                   /\ \A i \in 1..Len(tx.shielded_spends) :
                          tx.shielded_spends[i].spend_auth_sig # blank
                   /\ Len(tx.shielded_outputs) = Len(builder.outputs) + Cardinality(changes)
                   /\ tx.binding_sig # None
          /\ result'.kind # "Ok" => result'.tx = None ]_vars

\* A build returned a transaction with a spend, an output and the change.
C9_Witness ==
    /\ call.op = "build"
    /\ result.kind = "Ok"
    /\ Len(result.tx[1].shielded_spends) >= 1
    /\ Len(result.tx[1].shielded_outputs) = 2
    /\ Events("change_output") # {}

\* C10. build_no_sign leaves every spend authorization signature blank and
\* sets the binding signature.
C10_NoSignLeavesBlank ==
    (call.op = "build_no_sign" /\ result.kind = "Ok") =>
        /\ \A i \in 1..Len(result.tx[1].shielded_spends) :
               result.tx[1].shielded_spends[i].spend_auth_sig = blank
        /\ result.tx[1].binding_sig # None

\* What a build with no change does once the value check has passed: a spend
\* proof for each spend and an output proof for each output, then the binding
\* signature, whose refusal is the build's error and whose making is the
\* build's transaction.
ProvesAndBinds(pre, events, ret) ==
    LET sp == SelectSeq(events, LAMBDA x : x.ev = "spend_proof")
        op == SelectSeq(events, LAMBDA x : x.ev = "output_proof")
        bs == SelectSeq(events, LAMBDA x : x.ev = "binding_sig")
    IN  /\ Len(sp) = Len(pre.spends)
        /\ Len(op) = Len(pre.outputs)
        /\ Len(bs) = 1
        /\ ~bs[1].ok => ret = Err("build", "Failed to create bindingSig", << >>)
        /\ bs[1].ok => ret.kind = "Ok" /\ ret.tx # None

\* C11 as stated. Exact funding: a build whose spends total its outputs plus
\* the fee, with value_balance - fee = 0 and at least one spend, adds no
\* change output, asks for every proof and reaches the binding signature.
C11_ExactFunding ==
    [][ ( /\ call'.op = "build"
          /\ Sub(paid_in, paid_out) = builder.fee
          /\ Sub(builder.mtx.value_balance, builder.fee) = Zero
          /\ builder.spends # << >> )
        => ( /\ builder'.outputs = builder.outputs
             /\ \A k \in 1..Len(log') : log'[k].ev # "change_output"
             /\ ProvesAndBinds(builder, log', result') ) ]_vars

\* C11, amended. Exact funding: a build whose spends total its outputs plus
\* the fee, with value_balance - fee = 0 and at least one spend, passes the
\* value check and adds no change output; if a
\* spend proof fails the build returns that error, no transaction and makes
\* no binding signature; otherwise it asks for every proof and reaches the
\* binding signature.
C11_ExactFundingProved ==
    [][ ( /\ call'.op = "build"
          /\ Sub(paid_in, paid_out) = builder.fee
          /\ Sub(builder.mtx.value_balance, builder.fee) = Zero
          /\ builder.spends # << >> )
        => ( /\ builder'.outputs = builder.outputs
             /\ \A k \in 1..Len(log') : log'[k].ev # "change_output"
             /\ result'.text # "Change is negative"
             /\ IF \E k \in 1..Len(log') : log'[k].ev = "spend_proof" /\ ~log'[k].ok
                THEN /\ result' = Err("build", "spend proof", << >>)
                     /\ \A k \in 1..Len(log') : log'[k].ev # "binding_sig"
                ELSE ProvesAndBinds(builder, log', result') ) ]_vars

\* Two spends of 60000 in all, an output of 50000 and the fee of 10000 were
\* built to the binding signature, which the proving context refused.
C11_Witness ==
    /\ call.op = "build"
    /\ result = Err("build", "Failed to create bindingSig", << >>)
    /\ Len(builder.spends) = 2
    /\ Len(builder.outputs) = 1
    /\ builder.fee = N(0, DEFAULT_FEE)
    /\ builder.mtx.value_balance = builder.fee
    /\ Cardinality(Events("spend_proof")) = 2
    /\ Cardinality(Events("output_proof")) = 1

\* C12. An add_sapling_output to an address whose diversifier has no g_d
\* returns "Invalid target address" and leaves the whole builder as it was.
C12_InvalidTargetLeavesBuilder ==
    [][ ( /\ call'.op = "add_sapling_output"
          /\ g_d(call'.args.to.diversifier) = None )
        => ( /\ result' = Err("add_sapling_output", "Invalid target address", << >>)
             /\ builder' = builder ) ]_vars

\* An output to an invalid address was refused after another was recorded.
C12_Witness ==
    /\ call.op = "add_sapling_output"
    /\ result.text = "Invalid target address"
    /\ g_d(call.args.to.diversifier) = None
    /\ Len(builder.outputs) = 1
    /\ IsNegative(builder.mtx.value_balance)

\* C13. No build returns a transaction whose fee, or whose value_balance, is
\* negative.
C13_NoNegativeFee ==
    (call.op = "build" /\ result.kind = "Ok") =>
        /\ ~IsNegative(builder.fee)
        /\ ~IsNegative(result.tx[1].value_balance)

\* C20. Common anchor: a builder with a spend has an anchor, the root of the
\* witness of every spend it holds, the first included; every spend proof a
\* build asks for and every spend description it makes carries that anchor.
C20_CommonAnchor ==
    builder.spends # << >> =>
        /\ builder.anchor # None
        /\ \A i \in 1..Len(builder.spends) :
               root(builder.spends[i].witness) = builder.anchor[1]
        /\ \A k \in Events("spend_proof") : log[k].anchor = builder.anchor[1]
        /\ \A i \in 1..Len(builder.mtx.shielded_spends) :
               builder.mtx.shielded_spends[i].anchor = builder.anchor[1]
        /\ result.tx # None =>
               \A i \in 1..Len(result.tx[1].shielded_spends) :
                   result.tx[1].shielded_spends[i].anchor = builder.anchor[1]

\* A build made two spend descriptions for two spends of one root, a third
\* call having failed.
C20_Witness ==
    /\ call.op = "build"
    /\ Len(builder.spends) = 2
    /\ Len(builder.mtx.shielded_spends) = 2
    /\ calls = 3
    /\ paid_out = Zero

\* C18. ivk range: ivk always returns a scalar; it is the digest of (ak, nk)
\* with the five high bits of its last byte cleared, an integer below 2^251
\* and below the modulus of Fs, and the same at every call.
C18_IvkRange ==
    call.op = "ivk" =>
        /\ result.kind = "Ok"
        /\ result = ivk(call.args.self)
        /\ LET scalar == result.tx[1]
               h == CRH_IVK(call.args.self.ak, call.args.self.nk)
           IN  /\ Less(scalar, TWO_251)
               /\ Less(scalar, FS_MODULUS)
               /\ scalar[32] < 8
               /\ scalar[32] = h[32] % 8
               /\ \A i \in 1..31 : scalar[i] = h[i]

\* ivk was applied to a key whose digest is the largest 256-bit integer.
C18_Witness ==
    /\ call.op = "ivk"
    /\ \A i \in 1..32 : CRH_IVK(call.args.self.ak, call.args.self.nk)[i] = 255
    /\ result.kind = "Ok"
    /\ result.tx[1][32] = 7

\* Two applications of nf differ in one argument only.
DifferIn(a, b, field) ==
    /\ a[field] # b[field]
    /\ \A other \in {"note", "viewing_key", "position"} \ {field} : a[other] = b[other]

\* C19 as stated. The same note, position and viewing key give the same
\* nullifier, and changing one of the three changes the nullifier.
C19_NullifierSensitivity ==
    call.op = "nf" =>
        LET a == call.args.first
            b == call.args.second
        IN  /\ a = b => result.tx[1] = result.tx[2]
            /\ \A field \in {"note", "viewing_key", "position"} :
                   DifferIn(a, b, field) => result.tx[1] # result.tx[2]

\* C19, amended. The same note, position and nk of the viewing key give the
\* same nullifier, whatever the ak of the viewing key; changing the note, the
\* position or the nk of the viewing key, and nothing else, changes the
\* nullifier.
C19_NullifierSensitivityNk ==
    call.op = "nf" =>
        LET a == call.args.first
            b == call.args.second
        IN  /\ ( /\ a.note = b.note
                 /\ a.position = b.position
                 /\ a.viewing_key.nk = b.viewing_key.nk ) => result.tx[1] = result.tx[2]
            /\ \A field \in {"note", "position"} :
                   DifferIn(a, b, field) => result.tx[1] # result.tx[2]
            /\ ( /\ a.viewing_key.nk # b.viewing_key.nk
                 /\ a.note = b.note
                 /\ a.position = b.position ) => result.tx[1] # result.tx[2]

\* nf was applied to one note at one position under two viewing keys of one
\* nk and two ak.
C19_Witness ==
    /\ call.op = "nf"
    /\ call.args.first.note = call.args.second.note
    /\ call.args.first.position = call.args.second.position
    /\ call.args.first.viewing_key.nk = call.args.second.viewing_key.nk
    /\ call.args.first.viewing_key.ak # call.args.second.viewing_key.ak
    /\ result.tx[1] = result.tx[2]


\* A compact output whose cmu is an element of Fr and whose epk is a point of
\* the prime-order subgroup.
WellFormed(output) ==
    /\ Len(output.cmu) >= 32
    /\ Less(SubSeq(output.cmu, 1, 32), FR_MODULUS)
    /\ output.epk.on_curve
    /\ output.epk.prime_order

\* The positions (from 1) of the ivks the output was encrypted to.
Decrypting(output, ivks) ==
    {i \in 1..Len(ivks) : \E n \in output.ciphertext : n.ivk = ivks[i]}

\* The least element of a non-empty set of numbers.
Least(S) == CHOOSE i \in S : \A k \in S : i <= k

\* The value the output holds for an ivk it was encrypted to.
ValueFor(output, ivk_) == (CHOOSE n \in output.ciphertext : n.ivk = ivk_).value

\* C14. First match wins: for a well-formed compact output and any list of
\* ivks, scan_output returns None if no ivk decrypts the output, and
\* otherwise returns the output (its index, cmu, epk and ciphertext) with
\* account the smallest index i such that ivks[i] decrypts it and value the
\* note value recovered under that ivk, even when a later ivk decrypts it too.
C14_FirstMatchWins ==
    (call.op = "scan_output" /\ WellFormed(call.args.output)) =>
        LET output == call.args.output
            ivks == call.args.ivks
            matching == Decrypting(output, ivks)
        IN  /\ result.kind = "Ok"
            /\ IF matching = {} THEN result.tx = None
               ELSE /\ result.tx # None
                    /\ result.tx[1].index = call.args.index
                    /\ result.tx[1].cmu = SubSeq(output.cmu, 1, 32)
                    /\ result.tx[1].epk = output.epk
                    /\ result.tx[1].enc_ct = output.ciphertext
                    /\ result.tx[1].account = Least(matching) - 1
                    /\ result.tx[1].value = ValueFor(output, ivks[Least(matching)])

\* C14 happens: an output two ivks decrypt to different values was scanned
\* with both, and reported for the first of the list, which is the second
\* key of the wallet.
C14_Witness ==
    /\ call.op = "scan_output"
    /\ call.args.output = ToBoth
    /\ call.args.ivks = <<IvkOf(K2), IvkOf(K1)>>
    /\ result.tx # None
    /\ result.tx[1].account = 0
    /\ result.tx[1].value = 6

\* The positions (from 1) of the malformed outputs of a transaction.
Malformed(tx) == {j \in 1..Len(tx.outputs) : ~WellFormed(tx.outputs[j])}

\* The block with every malformed output replaced by a well-formed output
\* nobody decrypts.
WithoutMalformed(block) ==
    [vtx |-> [k \in 1..Len(block.vtx) |->
                 [txHash |-> block.vtx[k].txHash,
                  spends |-> block.vtx[k].spends,
                  outputs |-> [j \in 1..Len(block.vtx[k].outputs) |->
                                  IF WellFormed(block.vtx[k].outputs[j])
                                  THEN block.vtx[k].outputs[j] ELSE ToNobody]]]]

\* C15. Malformed outputs are skipped locally: a compact output whose cmu is
\* no element of Fr or whose epk is no point of the prime-order subgroup is
\* never reported and never trial-decrypted, by scan_output and in a
\* transaction scan_tx scans, and what scan_block returns for a block is what
\* it returns for the block with a well-formed output of somebody else at
\* the place of each malformed output.
C15_MalformedSkipped ==
    /\ (call.op = "scan_output" /\ ~WellFormed(call.args.output)) =>
           /\ result.kind = "Ok"
           /\ result.tx = None
           /\ log = << >>
    /\ call.op = "scan_tx" =>
           \A j \in Malformed(call.args.tx) :
               /\ \A k \in 1..Len(log) : log[k].index # j - 1
               /\ result.tx # None =>
                      \A k \in 1..Len(result.tx[1].shielded_outputs) :
                          result.tx[1].shielded_outputs[k].index # j - 1
    /\ call.op = "scan_block" =>
           LET other == scan_block(WithoutMalformed(call.args.block), call.args.extfvks)
           IN  /\ result.kind = other.kind
               /\ result.tx = other.ret

\* C15 happens: a block was scanned in which a transaction holds an output
\* of a cmu out of Fr that the key would decrypt, before an output to the
\* key, and a second transaction holds an output of an epk of small order;
\* the one well-formed output was reported.
C15_Witness ==
    /\ call.op = "scan_block"
    /\ call.args.extfvks = <<K1>>
    /\ call.args.block.vtx = <<CompactTx(Hash32, <<BadCmu, ToK1>>),
                               CompactTx(Hash32, <<BadEpk>>)>>
    /\ result.kind = "Ok"
    /\ Len(result.tx) = 1
    /\ Len(result.tx[1].shielded_outputs) = 1
    /\ result.tx[1].shielded_outputs[1].index = 1

\* The positions (from 1) of the outputs of a transaction that match a key.
Matched(tx, ivks) ==
    {j \in 1..Len(tx.outputs) :
        WellFormed(tx.outputs[j]) /\ Decrypting(tx.outputs[j], ivks) # {}}

\* The elements of a set of numbers in ascending order.
Ascending(S) ==
    CHOOSE s \in [1..Cardinality(S) -> S] : \A a, b \in 1..Cardinality(S) : a < b => s[a] < s[b]

\* The ivks of a list of extended full viewing keys.
IvksOf(extfvks) == [i \in 1..Len(extfvks) |-> IvkOf(extfvks[i])]

\* Whether r is the WalletTx of the transaction: the hash, the numbers of all
\* spends and outputs, and the matched outputs in output order with their
\* positions.
IsWalletTxOf(r, tx, ivks) ==
    LET matched == Ascending(Matched(tx, ivks))
    IN  /\ r.txid = tx.txHash
        /\ r.num_spends = Len(tx.spends)
        /\ r.num_outputs = Len(tx.outputs)
        /\ Len(r.shielded_outputs) = Len(matched)
        /\ \A k \in 1..Len(matched) :
               /\ r.shielded_outputs[k].index = matched[k] - 1
               /\ r.shielded_outputs[k].enc_ct = tx.outputs[matched[k]].ciphertext

\* C16. scan_tx returns nothing exactly when no output of the transaction
\* matches any key; otherwise it returns a WalletTx whose txid is the
\* transaction hash, whose num_spends and num_outputs are the numbers of all
\* spends and outputs of the compact transaction, and whose shielded_outputs
\* are exactly the matched outputs in output order, each with its position in
\* the transaction as index.
C16_ScanTxReport ==
    call.op = "scan_tx" =>
        LET tx == call.args.tx
            ivks == IvksOf(call.args.extfvks)
        IN  /\ result.kind = "Ok"
            /\ result.tx = None <=> Matched(tx, ivks) = {}
            /\ result.tx # None => IsWalletTxOf(result.tx[1], tx, ivks)

\* C17. scan_block returns, in block order, exactly one WalletTx for each
\* transaction of the block that has at least one matching output and none
\* for the others; a block of one transaction of one output to the address
\* of the first key with value v yields one WalletTx of one shielded output,
\* account 0 and value v.
C17_ScanBlockReport ==
    call.op = "scan_block" =>
        LET vtx == call.args.block.vtx
            ivks == IvksOf(call.args.extfvks)
            matching == Ascending({k \in 1..Len(vtx) : Matched(vtx[k], ivks) # {}})
        IN  /\ result.kind = "Ok"
            /\ Len(result.tx) = Len(matching)
            /\ \A k \in 1..Len(matching) : IsWalletTxOf(result.tx[k], vtx[matching[k]], ivks)
            /\ (Len(vtx) = 1 /\ vtx[1].outputs = <<ToK1>> /\ call.args.extfvks = <<K1>>) =>
                   /\ Len(result.tx) = 1
                   /\ Len(result.tx[1].shielded_outputs) = 1
                   /\ result.tx[1].shielded_outputs[1].account = 0
                   /\ result.tx[1].shielded_outputs[1].value = 12345


\* C21. build never aborts: from every builder state a build returns a
\* transaction or one of the errors "Change is negative", "No change
\* address", "Invalid target address", the failure of a proof and "Failed to
\* create bindingSig"; the expectation "anchor was set if spends were added"
\* is never violated.
C21_BuildNeverAborts ==
    call.op = "build" =>
        /\ result.kind \in {"Ok", "Err"}
        /\ result.kind = "Ok" => result.tx # None
        /\ result.kind = "Err" =>
               result.text \in {"Change is negative", "No change address",
                                "Invalid target address", "spend proof",
                                "Failed to create bindingSig"}
        /\ result.text # "anchor was set if spends were added"

\* The sum of the note values of the recorded spends, and of the recorded
\* outputs, from the i-th on.
RECURSIVE SumOfNotes(_, _)
SumOfNotes(recorded, i) ==
    IF i > Len(recorded) THEN Zero
    ELSE Add(recorded[i].note.value, SumOfNotes(recorded, i + 1))

\* C22. A failing add_sapling_spend is atomic: when add_sapling_spend returns
\* the error of a witness that yields no path, the anchor, the value_balance
\* and the spends of the builder are those of before the call; and in every
\* state of an accumulating builder value_balance is the sum of the note
\* values of the recorded spends minus the sum of the values of the recorded
\* outputs.
C22_FailedSpendAtomic ==
    [][ /\ ( /\ call'.op = "add_sapling_spend"
             /\ result'.kind = "Err"
             /\ result'.text = "witness path" )
           => ( /\ builder'.anchor = builder.anchor
                /\ builder'.mtx.value_balance = builder.mtx.value_balance
                /\ builder'.spends = builder.spends )
        /\ phase' = "Accumulating" =>
               builder'.mtx.value_balance =
                   Sub(SumOfNotes(builder'.spends, 1), SumOfNotes(builder'.outputs, 1)) ]_vars

\* C23. No sign wrap: every add_sapling_spend that records a spend increases
\* value_balance by exactly the unsigned value of its note, also for values
\* of 2^63 and more, and every output add_sapling_output records carries as
\* its value exactly the amount by which value_balance was decreased, also
\* for a negative Amount.
C23_NoSignWrap ==
    [][ /\ (call'.op = "add_sapling_spend" /\ result'.kind = "Ok") =>
               /\ InU64(call'.args.note.value)
               /\ builder'.mtx.value_balance =
                      Add(builder.mtx.value_balance, call'.args.note.value)
        /\ (call'.op = "add_sapling_output" /\ result'.kind = "Ok") =>
               builder'.outputs[Len(builder'.outputs)].note.value =
                   Sub(builder.mtx.value_balance, builder'.mtx.value_balance) ]_vars


\* C24. Whenever a build reaches the sighash and the binding signature, the
\* value_balance of the builder is the fee exactly, a positive change having
\* gone to the change output: the data hashed and the binding signature carry
\* a value_balance equal to the fee, and so does every transaction returned.
C24_BalanceIsFee ==
    call.op = "build" =>
        /\ \A k \in Events("sighash") :
               /\ log[k].sighash.mtx.value_balance = builder.fee
               /\ builder.mtx.value_balance = builder.fee
        /\ \A k \in Events("binding_sig") : log[k].value_balance = builder.fee
        /\ result.kind = "Ok" => result.tx[1].value_balance = builder.fee

\* C24 happens: spends exceeding the outputs and the fee were built into a
\* transaction, with a change output.
C24_Witness ==
    /\ call.op = "build"
    /\ result.kind = "Ok"
    /\ IsPositive(Sub(Sub(paid_in, paid_out), builder.fee))
    /\ Events("change_output") # {}
    /\ Events("sighash") # {}
    /\ result.tx[1].value_balance = N(0, DEFAULT_FEE)


\* C25. Checks precede proving: a build that fails with "Change is
\* negative", with "No change address" or on the address of the change
\* ("Invalid target address") has created no proving context and asked for
\* no spend proof and no output proof.
C25_ChecksPrecedeProving ==
    ( /\ call.op = "build"
      /\ result.kind = "Err"
      /\ result.text \in {"Change is negative", "No change address",
                          "Invalid target address"} )
    => /\ Events("ctx_new") = {}
       /\ Events("spend_proof") = {}
       /\ Events("output_proof") = {}

\* C25 happens: a build of a spend and an output failed on the address of
\* the change, which the diversifier of the first spend does not make.
C25_Witness ==
    /\ call.op = "build"
    /\ result = Err("build", "Invalid target address", << >>)
    /\ Len(builder.spends) = 1
    /\ Len(builder.outputs) = 1
    /\ g_d(builder.spends[1].diversifier) = None
    /\ log = << >>


\* C26. Pairing of key and randomizer per spend: for every spend i of a
\* build, the ar handed to spend_proof is the ar of the i-th spend
\* authorization signature; that ar is used for the proof and the signature
\* of no other spend; the ask of signature i and the proof generation key of
\* proof i are those of the extended spending key derived from the
\* account_id of spend i.
C26_KeyAndRandomizerPairing ==
    call.op = "build" =>
        LET sp == Requests("spend_proof")
            ss == Requests("spend_sig")
        IN  /\ \A i \in 1..Len(sp) :
                 /\ sp[i].index = i
                 /\ sp[i].ar = builder.spends[i].ar
                 /\ sp[i].proof_generation_key =
                        proof_generation_key(KeyOf(builder, builder.spends[i]))
                 /\ \A j \in 1..Len(sp) : j # i => sp[j].ar # sp[i].ar
                 /\ \A j \in 1..Len(ss) : j # i => ss[j].ar # sp[i].ar
            /\ \A i \in 1..Len(ss) :
                 /\ ss[i].index = i
                 /\ ss[i].ar = sp[i].ar
                 /\ ss[i].ask = ask_of(KeyOf(builder, builder.spends[i]))


\* C27. Prover failure aborts the build: when spend_proof fails for the k-th
\* spend, build returns that error at once: the failed call is the k-th and
\* the last call of the build, so no proof is asked for a later spend or for
\* an output, no sighash is computed and no spend authorization signature
\* and no binding signature is made; no transaction is returned.
C27_ProverFailureAborts ==
    call.op = "build" =>
        \A k \in Events("spend_proof") :
            ~log[k].ok =>
                /\ result = Err("build", "spend proof", << >>)
                /\ k = Len(log)
                /\ log[k].index = Cardinality(Events("spend_proof"))
                /\ Events("output_proof") = {}
                /\ Events("sighash") = {}
                /\ Events("spend_sig") = {}
                /\ Events("binding_sig") = {}
                /\ Len(builder.mtx.shielded_spends) = log[k].index - 1
                /\ builder.mtx.shielded_outputs = << >>

\* C27 happens: the proof of the first of two spends failed in a build that
\* has an output and the change output to prove.
C27_Witness ==
    /\ call.op = "build"
    /\ result = Err("build", "spend proof", << >>)
    /\ Len(builder.spends) = 2
    /\ Len(builder.outputs) = 2
    /\ Events("change_output") # {}
    /\ Cardinality(Events("spend_proof")) = 1
    /\ \A k \in Events("spend_proof") : ~log[k].ok

====
